---- MODULE Spec2Model ----
(***************************************************************************)
(* GsToDfConverter (gsheets2dataframe.py): a facade over one Google Sheets *)
(* document.  The document is a map from worksheet names to worksheets;    *)
(* callers run upload / get_sheet_as_df / get_col_values_as_list /         *)
(* get_cell_value / get_focus_tab against it.  Strings that the code       *)
(* iterates over (column letters) are sequences of one-character strings.  *)
(* Cell values are non-blank strings.                                      *)
(***************************************************************************)
EXTENDS Integers, Sequences, FiniteSets, TLC

VARIABLES
  doc,        \* the document: worksheet name -> worksheet
  pc,         \* per caller: the remote call its operation performs next
  call,       \* per caller: the operation in progress and its arguments
  path,       \* per caller: the branches upload has taken so far
  ret,        \* per caller: what the finished operation returned or raised
  calls,      \* operations started so far
  serial,     \* callers exclude one another (external mutual exclusion)
  col_letter, \* argument of a get_col_number call
  col_pc,     \* "call" before, "done" after that call
  col_ret     \* its result

vars == <<doc, pc, call, path, ret, calls, serial, col_letter, col_pc, col_ret>>

(* ------------------------------ bounds -------------------------------- *)

\* longest column-letter string tried
MaxLen == 3
\* most data rows of an uploaded DataFrame
MaxDataRows == 2
\* most calls a single caller makes in one behaviour
MaxCalls == 2

(* --------------------------- small helpers ---------------------------- *)

Max(a, b) == IF a >= b THEN a ELSE b

SeqsUpTo(S, n) == UNION {[1..k -> S] : k \in 0..n}

RECURSIVE Pow(_, _)
Pow(b, e) == IF e = 0 THEN 1 ELSE b * Pow(b, e - 1)

RECURSIVE SumTo(_, _)
SumTo(f, n) == IF n = 0 THEN 0 ELSE f[n] + SumTo(f, n - 1)

(* --------------------- get_col_number (pure) -------------------------- *)

Letters ==
  << "A", "B", "C", "D", "E", "F", "G", "H", "I", "J", "K", "L", "M",
     "N", "O", "P", "Q", "R", "S", "T", "U", "V", "W", "X", "Y", "Z" >>

LetterSet == {Letters[i] : i \in DOMAIN Letters}

\* characters a caller may put in a column-letter string
Chars == LetterSet \cup {"a", "1"}

\* Python's ord() on the characters above
ord(c) ==
  CASE c = "a" -> 97
    [] c = "1" -> 49
    [] OTHER -> 64 + (CHOOSE i \in DOMAIN Letters : Letters[i] = c)

\* one turn of the loop body, line 188
col_step_off_by_one(result, char) == result * 26 + (ord(char) - ord("A"))

col_step(result, char) == result * 26 + (ord(char) - ord("A") + 1)

\* lines 186-189: result = 0; for char in col_letter: ...; return result
RECURSIVE col_loop(_, _)
col_loop(result, rest) ==
  IF rest = <<>> THEN result
  ELSE col_loop(col_step(result, Head(rest)), Tail(rest))

get_col_number(letters) == col_loop(0, letters)

(* ------------------------- the remote document ------------------------ *)

TabNames == {"Sheet1", "Sheet2"}

NoTab == [exists |-> FALSE, rows |-> 0, cols |-> 0, values |-> <<>>]

\* gspread raises WorksheetNotFound from Spreadsheet.worksheet(); the
\* handlers of this file name SpreadsheetNotFound.  Both derive directly
\* from GSpreadException, neither from the other.
WorksheetLookupError == "WorksheetNotFound"

HandledError == "SpreadsheetNotFound"

\* except <handler>: does the clause catch an exception of class exc
Catches(handler, exc) == exc = handler

\* self.sheet.worksheet(name)
worksheet(d, name) ==
  IF d[name].exists THEN [ok |-> TRUE, exc |-> ""]
  ELSE [ok |-> FALSE, exc |-> WorksheetLookupError]

\* self.sheet.add_worksheet(name, rows, cols)
add_worksheet(d, name, rows, cols) ==
  [d EXCEPT ![name] = [exists |-> TRUE, rows |-> rows, cols |-> cols, values |-> <<>>]]

Width(values) == IF values = <<>> THEN 0
                 ELSE CHOOSE w \in {Len(values[i]) : i \in DOMAIN values} :
                        \A i \in DOMAIN values : Len(values[i]) <= w

\* focus_tab.get_all_values(): the grid, short rows padded with ""
get_all_values(tab) ==
  LET w == Width(tab.values) IN
  [i \in DOMAIN tab.values |->
     [j \in 1..w |-> IF j <= Len(tab.values[i]) THEN tab.values[i][j] ELSE ""]]

\* focus_tab.update(range_name="A1", values=...): cells of values replace the
\* cells at the same place, counted from row 1 column 1; the rest stays
overlay(old, new) ==
  [i \in 1..Max(Len(old), Len(new)) |->
     IF i > Len(new) THEN old[i]
     ELSE IF i > Len(old) THEN new[i]
     ELSE [j \in 1..Max(Len(old[i]), Len(new[i])) |->
             IF j <= Len(new[i]) THEN new[i][j] ELSE old[i][j]]]

update_A1(tab, values) ==
  LET v == overlay(tab.values, values) IN
  [exists |-> TRUE, rows |-> Max(tab.rows, Len(v)),
   cols |-> Max(tab.cols, Width(v)), values |-> v]

\* focus_tab.append_rows(rows): rows go after the last row of the content
append_rows(tab, rows) ==
  LET v == tab.values \o rows IN
  [exists |-> TRUE, rows |-> Max(tab.rows, Len(v)),
   cols |-> Max(tab.cols, Width(v)), values |-> v]

RECURSIVE StripBlank(_)
StripBlank(s) ==
  IF s # <<>> /\ s[Len(s)] = "" THEN StripBlank(SubSeq(s, 1, Len(s) - 1)) ELSE s

\* focus_tab.col_values(n): column n top to bottom, trailing blanks dropped;
\* a column number below 1 is no cell label and the transport raises
col_values(tab, n) ==
  IF n < 1 THEN [kind |-> "raise", exc |-> "IncorrectCellLabel", val |-> <<>>]
  ELSE [kind |-> "value", exc |-> "",
        val |-> StripBlank([i \in DOMAIN tab.values |->
                  IF n <= Len(tab.values[i]) THEN tab.values[i][n] ELSE ""])]

\* focus_tab.acell(cell).value; a blank cell reads as ""
acell_value(tab, cell) ==
  LET c == get_col_number(cell.col) IN
  IF cell.row <= Len(tab.values) /\ c <= Len(tab.values[cell.row])
  THEN tab.values[cell.row][c] ELSE ""

(* ------------------------ DataFrames and arguments -------------------- *)

Headers == {<<"X">>, <<"X", "Y">>}

RowsOf(h) == IF Len(h) = 1 THEN {<<"1">>, <<"2">>}
             ELSE {<<"1", "2">>, <<"2", "1">>}

\* a DataFrame: df.columns and df.values
DataFrames ==
  UNION {{[columns |-> h, values |-> v] : v \in SeqsUpTo(RowsOf(h), MaxDataRows)}
         : h \in Headers}

NoFrame == [columns |-> <<>>, values |-> <<>>]

ColArgs == {<<"A">>, <<"B">>, <<>>, <<"1">>}

A1 == [col |-> <<"A">>, row |-> 1]

CellArgs == {A1, [col |-> <<"B">>, row |-> 2]}

NoCell == [col |-> <<>>, row |-> 0]

(* ----------------------- results of a call ---------------------------- *)

None == [kind |-> "None", exc |-> "", val |-> <<>>]

Value(v) == [kind |-> "value", exc |-> "", val |-> v]

Raise(e) == [kind |-> "raise", exc |-> e, val |-> <<>>]

NoRet == [kind |-> "", exc |-> "", val |-> <<>>]

(* ----------------------- the read operations -------------------------- *)

\* lines 211-216
get_focus_tab(d, name) ==
  LET r == worksheet(d, name) IN
  IF r.ok THEN Value(name)
  ELSE IF Catches(HandledError, r.exc) THEN None
  ELSE Raise(r.exc)

\* lines 119-128
get_sheet_as_df(d, name) ==
  LET focus_tab == get_focus_tab(d, name) IN
  IF focus_tab.kind = "raise" THEN focus_tab
  ELSE IF focus_tab.kind = "None" THEN None
  ELSE LET sheet_data == get_all_values(d[name]) IN
       IF sheet_data = <<>> THEN Raise("IndexError")
       ELSE Value([columns |-> sheet_data[1], values |-> Tail(sheet_data)])

\* lines 151-153
get_col_values_as_list(d, name, letters) ==
  LET focus_tab == get_focus_tab(d, name) IN
  IF focus_tab.kind = "raise" THEN focus_tab
  ELSE LET col_number == get_col_number(letters) IN
       IF focus_tab.kind = "None" THEN None
       ELSE col_values(d[name], col_number)

\* lines 176-177
get_cell_value(d, name, cell) ==
  LET focus_tab == get_focus_tab(d, name) IN
  IF focus_tab.kind = "raise" THEN focus_tab
  ELSE IF focus_tab.kind = "None" THEN None
  ELSE Value(acell_value(d[name], cell))

\* line 180
get_colA_as_list(d, name) == get_col_values_as_list(d, name, <<"A">>)

\* line 183
get_A1_value(d, name) == get_cell_value(d, name, A1)

(* ------------------------------ callers ------------------------------- *)

Procs == {1, 2}

NoCall == [op |-> "", name |-> "", df |-> NoFrame, col |-> <<>>, cell |-> NoCell]

ReadOps == {"get_focus_tab", "get_sheet_as_df", "get_col_values_as_list",
            "get_cell_value", "get_colA_as_list", "get_A1_value"}

\* a caller may start an operation
MayStart(p) ==
  /\ pc[p] = "idle"
  /\ calls < MaxCalls
  /\ serial => \A q \in Procs \ {p} : pc[q] \in {"idle", "done"}

\* a read operation runs and returns (or raises) r
Finish(p, c, r) ==
  /\ MayStart(p)
  /\ calls' = calls + 1
  /\ call' = [call EXCEPT ![p] = c]
  /\ ret' = [ret EXCEPT ![p] = r]
  /\ pc' = [pc EXCEPT ![p] = "done"]
  /\ UNCHANGED <<doc, path, serial, col_letter, col_pc, col_ret>>

Call_get_focus_tab(p) ==
  \E name \in TabNames :
    Finish(p, [NoCall EXCEPT !.op = "get_focus_tab", !.name = name],
           get_focus_tab(doc, name))

Call_get_sheet_as_df(p) ==
  \E name \in TabNames :
    Finish(p, [NoCall EXCEPT !.op = "get_sheet_as_df", !.name = name],
           get_sheet_as_df(doc, name))

Call_get_col_values_as_list(p) ==
  \E name \in TabNames, letters \in ColArgs :
    Finish(p, [NoCall EXCEPT !.op = "get_col_values_as_list", !.name = name,
                             !.col = letters],
           get_col_values_as_list(doc, name, letters))

Call_get_cell_value(p) ==
  \E name \in TabNames, cell \in CellArgs :
    Finish(p, [NoCall EXCEPT !.op = "get_cell_value", !.name = name,
                             !.cell = cell],
           get_cell_value(doc, name, cell))

Call_get_colA_as_list(p) ==
  \E name \in TabNames :
    Finish(p, [NoCall EXCEPT !.op = "get_colA_as_list", !.name = name,
                             !.col = <<"A">>],
           get_colA_as_list(doc, name))

Call_get_A1_value(p) ==
  \E name \in TabNames :
    Finish(p, [NoCall EXCEPT !.op = "get_A1_value", !.name = name,
                             !.cell = A1],
           get_A1_value(doc, name))

(* ------------------------------ upload -------------------------------- *)

\* upload(df, worksheet_name) is entered
upload_call(p) ==
  /\ MayStart(p)
  /\ \E df \in DataFrames, name \in TabNames :
       call' = [call EXCEPT ![p] = [NoCall EXCEPT !.op = "upload",
                                                  !.name = name, !.df = df]]
  /\ calls' = calls + 1
  /\ pc' = [pc EXCEPT ![p] = "worksheet"]
  /\ UNCHANGED <<doc, path, ret, serial, col_letter, col_pc, col_ret>>

\* lines 81-85: look the worksheet up; on a caught lookup failure create it
\* and look it up again; a failure that is not caught leaves upload
upload_worksheet(p) ==
  /\ pc[p] = "worksheet"
  /\ LET name == call[p].name
         r == worksheet(doc, name)
     IN IF r.ok
        THEN /\ path' = [path EXCEPT ![p] = <<"found">>]
             /\ pc' = [pc EXCEPT ![p] = "get_all_values"]
             /\ UNCHANGED <<doc, ret>>
        ELSE IF Catches(HandledError, r.exc)
        THEN /\ doc' = add_worksheet(doc, name, 1, Len(call[p].df.columns))
             /\ path' = [path EXCEPT ![p] = <<"created">>]
             /\ pc' = [pc EXCEPT ![p] = "get_all_values"]
             /\ UNCHANGED ret
        ELSE /\ path' = [path EXCEPT ![p] = <<"raised">>]
             /\ ret' = [ret EXCEPT ![p] = Raise(r.exc)]
             /\ pc' = [pc EXCEPT ![p] = "done"]
             /\ UNCHANGED doc
  /\ UNCHANGED <<call, calls, serial, col_letter, col_pc, col_ret>>

\* lines 82 and 85: the worksheet focus_tab refers to is the one looked up
\* by name
first_sheet(name) == "Sheet1"

resolved_tab(name) == name

\* line 87, the test: the sheet is blank
is_blank_always(sheet_data) == TRUE

is_blank(sheet_data) == sheet_data = <<>>

\* line 87: fetch the contents and branch on them
upload_get_all_values(p) ==
  /\ pc[p] = "get_all_values"
  /\ LET b == IF is_blank(get_all_values(doc[resolved_tab(call[p].name)]))
              THEN "update" ELSE "append"
     IN /\ pc' = [pc EXCEPT ![p] = b]
        /\ path' = [path EXCEPT ![p] = Append(path[p], b)]
  /\ UNCHANGED <<doc, call, ret, calls, serial, col_letter, col_pc, col_ret>>

\* line 91: the value grid of the whole DataFrame
whole_frame_no_header(df) == df.values

whole_frame(df) == <<df.columns>> \o df.values

\* line 96: the rows that are appended
rows_to_append_with_header(df) == <<df.columns>> \o df.values

rows_to_append(df) == df.values

\* lines 89-92
upload_update(p) ==
  /\ pc[p] = "update"
  /\ doc' = [doc EXCEPT ![resolved_tab(call[p].name)] =
                         update_A1(@, whole_frame(call[p].df))]
  /\ ret' = [ret EXCEPT ![p] = None]
  /\ pc' = [pc EXCEPT ![p] = "done"]
  /\ UNCHANGED <<call, path, calls, serial, col_letter, col_pc, col_ret>>

\* line 96
upload_append(p) ==
  /\ pc[p] = "append"
  /\ doc' = [doc EXCEPT ![resolved_tab(call[p].name)] =
                         append_rows(@, rows_to_append(call[p].df))]
  /\ ret' = [ret EXCEPT ![p] = None]
  /\ pc' = [pc EXCEPT ![p] = "done"]
  /\ UNCHANGED <<call, path, calls, serial, col_letter, col_pc, col_ret>>

\* the caller takes the result; the instance is ready for the next call
Return(p) ==
  /\ pc[p] = "done"
  /\ pc' = [pc EXCEPT ![p] = "idle"]
  /\ call' = [call EXCEPT ![p] = NoCall]
  /\ path' = [path EXCEPT ![p] = <<>>]
  /\ ret' = [ret EXCEPT ![p] = NoRet]
  /\ UNCHANGED <<doc, calls, serial, col_letter, col_pc, col_ret>>

(* ------------------------- specifications ----------------------------- *)

\* a worksheet as the document may hold it when the converter is built
FreshTab == [exists |-> TRUE, rows |-> 1000, cols |-> 26, values |-> <<>>]

FilledTab(values) == [FreshTab EXCEPT !.values = values]

InitTabs == {NoTab, FreshTab, FilledTab(<<<<"X">>, <<"1">>>>),
             FilledTab(<<<<"Y", "X">>, <<"1", "2">>>>)}

InitCallers ==
  /\ pc = [p \in Procs |-> "idle"]
  /\ call = [p \in Procs |-> NoCall]
  /\ path = [p \in Procs |-> <<>>]
  /\ ret = [p \in Procs |-> NoRet]
  /\ calls = 0

InitColIdle ==
  /\ col_letter = <<>>
  /\ col_pc = "idle"
  /\ col_ret = NoRet

\* one caller, one operation after the other
Init ==
  /\ doc \in [TabNames -> InitTabs]
  /\ InitCallers
  /\ serial = TRUE
  /\ InitColIdle

Next ==
  \/ Call_get_focus_tab(1)
  \/ Call_get_sheet_as_df(1)
  \/ Call_get_col_values_as_list(1)
  \/ Call_get_cell_value(1)
  \/ Call_get_colA_as_list(1)
  \/ Call_get_A1_value(1)
  \/ upload_call(1)
  \/ upload_worksheet(1)
  \/ upload_get_all_values(1)
  \/ upload_update(1)
  \/ upload_append(1)
  \/ Return(1)

Spec == Init /\ [][Next]_vars

\* two callers, each running one upload, with and without mutual exclusion
InitRace ==
  /\ doc \in [TabNames -> {NoTab, FreshTab}]
  /\ InitCallers
  /\ serial \in BOOLEAN
  /\ InitColIdle

NextRace ==
  \E p \in Procs :
    \/ upload_call(p)
    \/ upload_worksheet(p)
    \/ upload_get_all_values(p)
    \/ upload_update(p)
    \/ upload_append(p)

SpecRace == InitRace /\ [][NextRace]_vars

\* get_col_number applied to every string of at most MaxLen characters
InitCol ==
  /\ doc = [n \in TabNames |-> NoTab]
  /\ InitCallers
  /\ serial = TRUE
  /\ col_letter \in SeqsUpTo(Chars, MaxLen)
  /\ col_pc = "call"
  /\ col_ret = NoRet

col_call ==
  /\ col_pc = "call"
  /\ col_ret' = Value(get_col_number(col_letter))
  /\ col_pc' = "done"
  /\ UNCHANGED <<doc, pc, call, path, ret, calls, serial, col_letter>>

NextCol == col_call

SpecCol == InitCol /\ [][NextCol]_vars

(* ------------------------------ claims -------------------------------- *)

LetterValue(c) == CHOOSE i \in DOMAIN Letters : Letters[i] = c

ValidLetters(s) == s # <<>> /\ \A i \in DOMAIN s : s[i] \in LetterSet

\* the column index written out place by place
Positional(s) ==
  SumTo([i \in DOMAIN s |-> LetterValue(s[i]) * Pow(26, Len(s) - i)], Len(s))

\* C1: for every non-empty string of letters A-Z, get_col_number returns the
\* bijective base-26 column index (A=1 .. Z=26, no zero digit), read left to
\* right; A->1, Z->26, AA->27, AZ->52, BA->53
C1_ColumnIndex ==
  (col_pc = "done" /\ ValidLetters(col_letter)) =>
     /\ col_ret.kind = "value"
     /\ col_ret.val = Positional(col_letter)
     /\ col_ret.val >= 1
     /\ col_letter = <<"A">> => col_ret.val = 1
     /\ col_letter = <<"Z">> => col_ret.val = 26
     /\ col_letter = <<"A", "A">> => col_ret.val = 27
     /\ col_letter = <<"A", "Z">> => col_ret.val = 52
     /\ col_letter = <<"B", "A">> => col_ret.val = 53

C1_Witness ==
  col_pc = "done" /\ col_letter = <<"B", "A">> /\ col_ret.val = 53

\* the first lookup of an upload did not find the worksheet
WasAbsent(p) == path[p] # <<>> /\ path[p][1] # "found"

\* C2: upload into a name absent from the document completes, without
\* reporting a failure, with a worksheet of that name existing that has at
\* least as many columns as the DataFrame
C2_TabCreatedOnDemand ==
  \A p \in Procs :
    (pc[p] = "done" /\ call[p].op = "upload" /\ WasAbsent(p)) =>
       /\ ret[p].kind = "None"
       /\ doc[call[p].name].exists
       /\ doc[call[p].name].rows >= 1
       /\ doc[call[p].name].cols >= Len(call[p].df.columns)

\* the step of upload that writes: the update or the append returns
Writes(p) ==
  /\ call[p].op = "upload"
  /\ pc[p] \in {"update", "append"}
  /\ pc'[p] = "done"

\* C3: when the worksheet holds zero rows at the moment of the write, the
\* write leaves it holding exactly the header row followed by the data rows
C3_WriteToEmptyTab ==
  [][\A p \in Procs :
       (Writes(p) /\ doc[call[p].name].values = <<>>) =>
          doc'[call[p].name].values = <<call[p].df.columns>> \o call[p].df.values]_vars

C3_Witness ==
  /\ pc[1] = "done"
  /\ path[1] = <<"found", "update">>
  /\ call[1].df = [columns |-> <<"X">>, values |-> <<<<"1">>, <<"2">>>>]
  /\ doc[call[1].name].values = <<<<"X">>, <<"1">>, <<"2">>>>

\* C4: when the worksheet is non-empty at the moment of the write, every
\* existing row stays as it is, the header of the DataFrame is not written,
\* and the data rows follow the existing rows in order: the row count grows
\* by the number of data rows
C4_AppendToPopulatedTab ==
  [][\A p \in Procs :
       (Writes(p) /\ doc[call[p].name].values # <<>>) =>
          /\ doc'[call[p].name].values = doc[call[p].name].values \o call[p].df.values
          /\ Len(doc'[call[p].name].values) =
               Len(doc[call[p].name].values) + Len(call[p].df.values)]_vars

C4_Witness ==
  /\ pc[1] = "done"
  /\ path[1] = <<"found", "append">>
  /\ call[1].df = [columns |-> <<"X", "Y">>, values |-> <<<<"2", "1">>, <<"1", "2">>>>]
  /\ doc[call[1].name].values = <<<<"Y", "X">>, <<"1", "2">>, <<"2", "1">>, <<"1", "2">>>>

\* C5: upload into a previously nonexistent worksheet, then get_sheet_as_df
\* of it with nothing in between, gives back the header and the data rows
C5_RoundTrip ==
  \A p \in Procs :
    (pc[p] = "done" /\ call[p].op = "upload" /\ WasAbsent(p)) =>
       /\ ret[p].kind = "None"
       /\ LET r == get_sheet_as_df(doc, call[p].name)
          IN r.kind = "value" /\ r.val = call[p].df

\* C6: get_focus_tab and every read operation built on it, called with a
\* worksheet name that does not exist, return None and never raise
C6_NotFoundGivesNone ==
  \A p \in Procs :
    (pc[p] = "done" /\ call[p].op \in ReadOps /\ ~doc[call[p].name].exists) =>
       ret[p].kind = "None"

Malformed(s) == s = <<>> \/ \E i \in DOMAIN s : s[i] \notin LetterSet

\* C7: get_col_number on an empty string or on a string with a character
\* outside A-Z fails with InvalidAddressError and returns no index
C7_MalformedRejected ==
  (col_pc = "done" /\ Malformed(col_letter)) =>
     col_ret.kind = "raise" /\ col_ret.exc = "InvalidAddressError"

BothUploaded(name) ==
  \A p \in Procs :
    pc[p] = "done" /\ call[p].name = name /\ ret[p].kind = "None"

\* C8: two uploads to one worksheet that starts empty, run one after the
\* other: the second appends and no row of the first is lost; without mutual
\* exclusion both may see the worksheet empty and both replace (witness)
C8_SerialUploadsKeepRows ==
  \A name \in TabNames :
    (serial /\ BothUploaded(name)) =>
       \E p, q \in Procs :
          /\ p # q
          /\ path[p] = <<"found", "update">>
          /\ path[q] = <<"found", "append">>
          /\ doc[name].values =
               (<<call[p].df.columns>> \o call[p].df.values) \o call[q].df.values

C8_Witness ==
  \E name \in TabNames :
    /\ ~serial
    /\ BothUploaded(name)
    /\ \A p \in Procs : path[p] = <<"found", "update">> /\ Len(call[p].df.values) = 2
    /\ call[1].df # call[2].df
    /\ \E p \in Procs :
         doc[name].values = <<call[p].df.columns>> \o call[p].df.values

\* C9: get_sheet_as_df of an existing worksheet with zero rows returns a
\* defined result and does not fail; with at least one row the first row
\* gives the column names and the rest the data rows
C9_ZeroRowRead ==
  \A p \in Procs :
    (pc[p] = "done" /\ call[p].op = "get_sheet_as_df" /\ doc[call[p].name].exists) =>
       /\ ret[p].kind \in {"value", "None"}
       /\ doc[call[p].name].values # <<>> =>
            /\ ret[p].kind = "value"
            /\ ret[p].val.columns = get_all_values(doc[call[p].name])[1]
            /\ ret[p].val.values = Tail(get_all_values(doc[call[p].name]))

\* C10: a step of an upload changes no worksheet but the one it names, and
\* the read operations change neither the set of worksheets nor any contents,
\* also when the named worksheet does not exist
C10_Frame ==
  [][\A p \in Procs :
       pc'[p] # pc[p] =>
          /\ \A m \in TabNames :
               doc'[m] # doc[m] => call[p].op = "upload" /\ call[p].name = m
          /\ call'[p].op \in ReadOps => doc' = doc]_vars

C10_Witness ==
  /\ pc[1] = "done"
  /\ call[1].op = "upload"
  /\ call[1].name = "Sheet2"
  /\ path[1] = <<"found", "append">>
  /\ call[1].df.values # <<>>
  /\ doc["Sheet1"] = FilledTab(<<<<"X">>, <<"1">>>>)

====
